---- MODULE Spec2Model ----
(***************************************************************************)
(* A model of the DPLL SAT solver (solver/dpll.py) and of the CNF          *)
(* container it works on (solver/cnf.py).                                  *)
(*                                                                         *)
(* The recursion of _dpll_rec is an explicit stack of activations.  The    *)
(* assignment map, the trace and the statistics are single objects shared  *)
(* by all activations, as in the code.  A clause of the working list is a  *)
(* record [lits, ref]: lits is the literal sequence and ref tells which    *)
(* list object it is: ref = i > 0 means "the very list object stored at    *)
(* cnf.clauses[i]", ref = 0 means a list object the search created.        *)
(***************************************************************************)
EXTENDS Integers, Sequences, FiniteSets, TLC

\* ------------------------------------------------------------------ bounds
MaxVar == 2
MaxClauseLen == 2
MaxClauses == 3
MaxCalls == 2

\* ------------------------------------------------------------ basic values
Vars == 1..MaxVar
Lits == {l \in (0 - MaxVar)..MaxVar : l # 0}

\* abs(l)
Abs(l) == IF l < 0 THEN 0 - l ELSE l

\* The clauses and formulas the caller may hand over.
ClauseSet == UNION {[1..k -> Lits] : k \in 0..MaxClauseLen}
ClauseLists == UNION {[1..k -> ClauseSet] : k \in 0..MaxClauses}

RECURSIVE MaxMagLits(_)
MaxMagLits(cl) ==
    IF cl = <<>> THEN 0
    ELSE LET r == MaxMagLits(Tail(cl))
         IN IF Abs(Head(cl)) > r THEN Abs(Head(cl)) ELSE r

RECURSIVE MaxMag(_)
MaxMag(clauses) ==
    IF clauses = <<>> THEN 0
    ELSE LET a == MaxMagLits(Head(clauses))
             r == MaxMag(Tail(clauses))
         IN IF a > r THEN a ELSE r

\* l in cl
InClause(l, cl) == \E i \in 1..Len(cl) : cl[i] = l

\* [x for x in cl if x != l]
RECURSIVE Without(_, _)
Without(cl, l) ==
    IF cl = <<>> THEN <<>>
    ELSE IF Head(cl) = l THEN Without(Tail(cl), l)
         ELSE <<Head(cl)>> \o Without(Tail(cl), l)

\* An assignment is a function from the assigned variables to BOOLEAN.
EmptyAssign == [v \in {} |-> TRUE]
Put(assign, v, val) == [x \in (DOMAIN assign) \cup {v} |-> IF x = v THEN val ELSE assign[x]]
\* A backtrack that leaves the decided variable in the dict.
DelNothing(assign, v) == assign

Del(assign, v) == [x \in (DOMAIN assign) \ {v} |-> assign[x]]

\* ------------------------------------------------------- trace and stats
\* Event(kind, var, val, note); var = 0 stands for None (Event("sat")).
Event(kind, var, val, note) == [kind |-> kind, var |-> var, val |-> val, note |-> note]

\* A Trace object handed to dpll, or None (given = FALSE).
NoTrace == [given |-> FALSE, events |-> <<>>]
FreshTrace == [given |-> TRUE, events |-> <<>>]

\* "if trace: trace.append(e)": a Trace is a list, so an empty one is falsy.
AppendIfTruthy(tr, e) ==
    IF tr.given /\ Len(tr.events) > 0
    THEN [tr EXCEPT !.events = Append(tr.events, e)]
    ELSE tr

\* "if trace is not None: trace.append(e)"
AppendIfNotNone(tr, e) ==
    IF tr.given THEN [tr EXCEPT !.events = Append(tr.events, e)] ELSE tr

ZeroStats == [decisions |-> 0, propagations |-> 0, backtracks |-> 0]

\* --------------------------------------------------- clause-list objects
Fresh(lits) == [lits |-> lits, ref |-> 0]

\* Simplification of the clause list under the literal pos that became true:
\* satisfied clauses are dropped, -pos is removed from the others (a new list
\* object), untouched clauses are kept as the same object.  The scan stops at
\* the first clause that becomes empty.
RECURSIVE SimplifyFrom(_, _, _)
SimplifyFrom(clauses, pos, acc) ==
    IF clauses = <<>> THEN [clauses |-> acc, empty |-> FALSE]
    ELSE LET cl == Head(clauses)
         IN IF InClause(pos, cl.lits)
            THEN SimplifyFrom(Tail(clauses), pos, acc)
            ELSE IF InClause(0 - pos, cl.lits)
                 THEN LET new == Without(cl.lits, 0 - pos)
                      IN IF new = <<>>
                         THEN [clauses |-> acc, empty |-> TRUE]
                         ELSE SimplifyFrom(Tail(clauses), pos, Append(acc, Fresh(new)))
                 ELSE SimplifyFrom(Tail(clauses), pos, Append(acc, cl))

UnitSimplify(clauses, u) == SimplifyFrom(clauses, u, <<>>)

\* units = [cl[0] for cl in clauses if len(cl) == 1]
RECURSIVE Units(_)
Units(clauses) ==
    IF clauses = <<>> THEN <<>>
    ELSE IF Len(Head(clauses).lits) = 1
         THEN <<Head(clauses).lits[1]>> \o Units(Tail(clauses))
         ELSE Units(Tail(clauses))

\* The "for u in units" loop of one pass of the while loop.  s is the state of
\* the pass: the local clause list, the shared assignment, trace and stats,
\* the changed flag, and conflict once the function has returned (None, True).
RECURSIVE ForUnits(_, _)
ForUnits(units, s) ==
    IF units = <<>> \/ s.conflict THEN s
    ELSE LET u == Head(units)
             var == Abs(u)
             val == (u > 0)
         IN IF var \in DOMAIN s.assign
            THEN IF s.assign[var] # val
                 THEN [s EXCEPT !.conflict = TRUE,
                                !.trace = AppendIfNotNone(s.trace,
                                    Event("conflict", var, val, "unit contradicts previous"))]
                 ELSE ForUnits(Tail(units), s)
            ELSE LET tr1 == AppendIfTruthy(s.trace, Event("unit", var, val, ""))
                     st1 == [s.stats EXCEPT !.propagations = @ + 1]
                     as1 == Put(s.assign, var, val)
                     r == UnitSimplify(s.clauses, u)
                 IN IF r.empty
                    THEN [s EXCEPT !.assign = as1, !.stats = st1, !.changed = TRUE,
                                   !.conflict = TRUE,
                                   !.trace = AppendIfTruthy(tr1,
                                       Event("conflict", var, val, "empty clause after unit"))]
                    ELSE ForUnits(Tail(units),
                                  [s EXCEPT !.assign = as1, !.stats = st1, !.trace = tr1,
                                            !.changed = TRUE, !.clauses = r.clauses])

\* One pass of "while changed": exited is TRUE when the loop is left without
\* conflict (no unit clause, or a pass that changed nothing).
UnitPassResult(clauses, assign, trace, stats) ==
    LET units == Units(clauses)
        s0 == [clauses |-> clauses, assign |-> assign, trace |-> trace, stats |-> stats,
               changed |-> FALSE, conflict |-> FALSE]
    IN IF units = <<>>
       THEN [s0 EXCEPT !.changed = FALSE] @@ [exited |-> TRUE]
       ELSE LET s == ForUnits(units, s0)
            IN s @@ [exited |-> (~s.conflict /\ ~s.changed)]

\* ------------------------------------------------ pure literal elimination
\* All literals of the clause list, in scan order.
RECURSIVE AllLits(_)
AllLits(clauses) ==
    IF clauses = <<>> THEN <<>> ELSE Head(clauses).lits \o AllLits(Tail(clauses))

\* The keys of the polarity dict in insertion order: the variables in the
\* order of their first occurrence.
RECURSIVE VarOrder(_, _)
VarOrder(lits, seen) ==
    IF lits = <<>> THEN seen
    ELSE IF \E i \in 1..Len(seen) : seen[i] = Abs(Head(lits))
         THEN VarOrder(Tail(lits), seen)
         ELSE VarOrder(Tail(lits), Append(seen, Abs(Head(lits))))

\* A polarity taken from the first occurrence of the variable alone.
PolarityOfFirst(v, lits) ==
    LET i == CHOOSE k \in 1..Len(lits) :
                 Abs(lits[k]) = v /\ \A m \in 1..(k - 1) : Abs(lits[m]) # v
    IN IF lits[i] > 0 THEN 1 ELSE -1

\* polarity[v] after the scan: 1 only positive, -1 only negative, 0 both.
Polarity(v, lits) ==
    LET pos == \E i \in 1..Len(lits) : lits[i] = v
        neg == \E i \in 1..Len(lits) : lits[i] = 0 - v
    IN IF pos /\ neg THEN 0 ELSE IF pos THEN 1 ELSE -1

\* pures = [(v, polarity[v] == 1) for v in polarity
\*          if polarity[v] in (1, -1) and v not in assign]
RECURSIVE Pures(_, _, _)
Pures(order, lits, assign) ==
    IF order = <<>> THEN <<>>
    ELSE LET v == Head(order)
             p == Polarity(v, lits)
         IN IF p # 0 /\ v \notin DOMAIN assign
            THEN <<[v |-> v, val |-> (p = 1)]>> \o Pures(Tail(order), lits, assign)
            ELSE Pures(Tail(order), lits, assign)

\* "for v, val in pures": assign, count, trace.
RECURSIVE AssignPures(_, _)
AssignPures(pures, s) ==
    IF pures = <<>> THEN s
    ELSE LET p == Head(pures)
         IN AssignPures(Tail(pures),
                [s EXCEPT !.assign = Put(s.assign, p.v, p.val),
                          !.stats = [s.stats EXCEPT !.propagations = @ + 1],
                          !.trace = AppendIfTruthy(s.trace, Event("pure", p.v, p.val, "")),
                          !.satisfied = @ \cup {IF p.val THEN p.v ELSE 0 - p.v}])

\* [cl for cl in clauses if not any(l in satisfied for l in cl)]
RECURSIVE DropSatisfied(_, _)
DropSatisfied(clauses, satisfied) ==
    IF clauses = <<>> THEN <<>>
    ELSE LET cl == Head(clauses)
         IN IF \E i \in 1..Len(cl.lits) : cl.lits[i] \in satisfied
            THEN DropSatisfied(Tail(clauses), satisfied)
            ELSE <<cl>> \o DropSatisfied(Tail(clauses), satisfied)

\* _pure_literal_elimination(clauses, assign, trace, stats)
PureLiteralElimination(clauses, assign, trace, stats) ==
    LET s0 == [clauses |-> clauses, assign |-> assign, trace |-> trace, stats |-> stats,
               satisfied |-> {}, changed |-> FALSE]
    IN IF clauses = <<>> THEN s0
       ELSE LET lits == AllLits(clauses)
                pures == Pures(VarOrder(lits, <<>>), lits, assign)
            IN IF pures = <<>> THEN s0
               ELSE LET s == AssignPures(pures, s0)
                    IN [s EXCEPT !.clauses = DropSatisfied(clauses, s.satisfied),
                                 !.changed = TRUE]

\* ------------------------------------------------------ variable selection
\* A count of 1 for a literal that occurs, however often it occurs.
CountOnce(lits, l) == IF \E i \in 1..Len(lits) : lits[i] = l THEN 1 ELSE 0

\* pos_count.get(v, 0) / neg_count.get(v, 0): occurrences of the literal in
\* the clause list.
RECURSIVE CountLit(_, _)
CountLit(lits, l) ==
    IF lits = <<>> THEN 0
    ELSE (IF Head(lits) = l THEN 1 ELSE 0) + CountLit(Tail(lits), l)

\* "for v in keys": keys is a set of small ints, which CPython iterates in
\* ascending order; best is (best_v, best_pol_true, best_score).
RECURSIVE DlisScan(_, _, _, _)
DlisScan(v, lits, assign, best) ==
    IF v > MaxMagLits(lits) THEN best
    ELSE LET pc == CountLit(lits, v)
             nc == CountLit(lits, 0 - v)
         IN IF v \in DOMAIN assign \/ (pc = 0 /\ nc = 0)
            THEN DlisScan(v + 1, lits, assign, best)
            ELSE IF pc >= nc /\ pc > best.score
                 THEN DlisScan(v + 1, lits, assign, [v |-> v, pol |-> TRUE, score |-> pc])
                 ELSE IF nc > best.score
                      THEN DlisScan(v + 1, lits, assign, [v |-> v, pol |-> FALSE, score |-> nc])
                      ELSE DlisScan(v + 1, lits, assign, best)

\* _dlis_lite_choice(clauses, assign): (0, True) when no unassigned variable occurs.
DlisLiteChoice(clauses, assign) ==
    LET b == DlisScan(1, AllLits(clauses), assign, [v |-> 0, pol |-> TRUE, score |-> -1])
    IN [v |-> b.v, pol |-> b.pol]

\* The fallback scan: the first literal whose variable is unassigned.
RECURSIVE FirstUnassigned(_, _)
FirstUnassigned(lits, assign) ==
    IF lits = <<>> THEN 0
    ELSE IF Abs(Head(lits)) \notin DOMAIN assign THEN Abs(Head(lits))
         ELSE FirstUnassigned(Tail(lits), assign)

\* _choose_unassigned(clauses, assign, use_heuristic)
ChooseUnassigned(clauses, assign, heuristic) ==
    LET d == DlisLiteChoice(clauses, assign)
    IN IF heuristic /\ d.v # 0 THEN d
       ELSE [v |-> FirstUnassigned(AllLits(clauses), assign), pol |-> TRUE]

\* The simplification under a decision (the loop of step 5).
DecideSimplify(clauses, pos) == SimplifyFrom(clauses, pos, <<>>)

\* --------------------------------------------------- satisfaction check
\* A check that reads an unassigned variable as false: model.get(v, False).
RECURSIVE ClauseSatisfiedDefaultFalse(_, _)
ClauseSatisfiedDefaultFalse(clause, model) ==
    IF clause = <<>> THEN FALSE
    ELSE LET l == Head(clause)
             v == Abs(l)
             val == IF v \in DOMAIN model THEN model[v] ELSE FALSE
         IN IF (l > 0 /\ val) \/ (l < 0 /\ ~val) THEN TRUE
            ELSE ClauseSatisfiedDefaultFalse(Tail(clause), model)

\* clause_satisfied(clause, model): the scan over the literals; model.get(v)
\* is None for a variable that is no key of model.
RECURSIVE ClauseSatisfied(_, _)
ClauseSatisfied(clause, model) ==
    IF clause = <<>> THEN FALSE
    ELSE LET l == Head(clause)
             v == Abs(l)
         IN IF v \notin DOMAIN model THEN ClauseSatisfied(Tail(clause), model)
            ELSE IF (l > 0 /\ model[v]) \/ (l < 0 /\ ~model[v]) THEN TRUE
                 ELSE ClauseSatisfied(Tail(clause), model)

\* formula_satisfied(cnf, model)
FormulaSatisfied(c, model) ==
    \A i \in 1..Len(c.clauses) : ClauseSatisfied(c.clauses[i], model)

\* ------------------------------------------------------------ DIMACS text
\* A text is a sequence of characters (one-character strings).
DigitChars == <<"0", "1", "2", "3", "4", "5", "6", "7", "8", "9">>
NL == "\n"

\* str(n) for n >= 0
RECURSIVE StrNat(_)
StrNat(n) ==
    IF n < 10 THEN <<DigitChars[n + 1]>>
    ELSE StrNat(n \div 10) \o <<DigitChars[(n % 10) + 1]>>

\* str(i)
Str(i) == IF i < 0 THEN <<"-">> \o StrNat(0 - i) ELSE StrNat(i)

\* " ".join(str(l) for l in cl)
RECURSIVE JoinLits(_)
JoinLits(cl) ==
    IF cl = <<>> THEN <<>>
    ELSE IF Len(cl) = 1 THEN Str(cl[1])
         ELSE Str(cl[1]) \o <<" ">> \o JoinLits(Tail(cl))

\* The clause lines of to_dimacs, each followed by the newline of the join.
RECURSIVE ClauseLines(_)
ClauseLines(clauses) ==
    IF clauses = <<>> THEN <<>>
    ELSE JoinLits(Head(clauses)) \o <<" ", "0", NL>> \o ClauseLines(Tail(clauses))

\* CNF.to_dimacs()
ToDimacs(c) ==
    <<"p", " ", "c", "n", "f", " ">> \o Str(c.num_vars) \o <<" ">> \o Str(Len(c.clauses))
        \o <<NL>> \o ClauseLines(c.clauses)

\* text.splitlines(), for texts whose only line break is "\n"
RECURSIVE SplitLinesFrom(_, _, _)
SplitLinesFrom(text, cur, acc) ==
    IF text = <<>> THEN (IF cur = <<>> THEN acc ELSE Append(acc, cur))
    ELSE IF Head(text) = NL THEN SplitLinesFrom(Tail(text), <<>>, Append(acc, cur))
         ELSE SplitLinesFrom(Tail(text), Append(cur, Head(text)), acc)

SplitLines(text) == SplitLinesFrom(text, <<>>, <<>>)

\* raw.strip(), the whitespace of these texts being the blank
RECURSIVE LStrip(_)
LStrip(line) ==
    IF line # <<>> /\ Head(line) = " " THEN LStrip(Tail(line)) ELSE line

RECURSIVE RStrip(_)
RStrip(line) ==
    IF line # <<>> /\ line[Len(line)] = " " THEN RStrip(SubSeq(line, 1, Len(line) - 1))
    ELSE line

Strip(line) == RStrip(LStrip(line))

\* s.split()
RECURSIVE SplitFrom(_, _, _)
SplitFrom(line, cur, acc) ==
    IF line = <<>> THEN (IF cur = <<>> THEN acc ELSE Append(acc, cur))
    ELSE IF Head(line) = " "
         THEN SplitFrom(Tail(line), <<>>, IF cur = <<>> THEN acc ELSE Append(acc, cur))
         ELSE SplitFrom(Tail(line), Append(cur, Head(line)), acc)

Split(line) == SplitFrom(line, <<>>, <<>>)

DigitValue(ch) == CHOOSE d \in 0..9 : DigitChars[d + 1] = ch
IsDigit(ch) == \E d \in 0..9 : DigitChars[d + 1] = ch

RECURSIVE NatOf(_, _)
NatOf(digits, acc) ==
    IF digits = <<>> THEN acc
    ELSE NatOf(Tail(digits), 10 * acc + DigitValue(Head(digits)))

\* int(x): an optional sign and one or more digits, ValueError otherwise.
IntOf(tok) ==
    LET signed == tok # <<>> /\ Head(tok) \in {"-", "+"}
        digits == IF signed THEN Tail(tok) ELSE tok
    IN IF digits = <<>> \/ \E i \in 1..Len(digits) : ~IsDigit(digits[i])
       THEN [ok |-> FALSE, val |-> 0]
       ELSE [ok |-> TRUE,
             val |-> IF signed /\ Head(tok) = "-" THEN 0 - NatOf(digits, 0)
                     ELSE NatOf(digits, 0)]

\* [int(x) for x in s.split() if x != '0']
RECURSIVE ParseLits(_, _)
ParseLits(toks, acc) ==
    IF toks = <<>> THEN [ok |-> TRUE, lits |-> acc]
    ELSE IF Head(toks) = <<"0">> THEN ParseLits(Tail(toks), acc)
         ELSE LET r == IntOf(Head(toks))
              IN IF r.ok THEN ParseLits(Tail(toks), Append(acc, r.val))
                 ELSE [ok |-> FALSE, lits |-> acc]

Max2(a, b) == IF a > b THEN a ELSE b

\* The loop over the lines of parse_dimacs; st is (num_vars, clauses) and
\* status names the exception that ended the parse, if any.
RECURSIVE ParseLines(_, _)
ParseLines(lines, st) ==
    IF lines = <<>> \/ st.status # "ok" THEN st
    ELSE LET ln == Strip(Head(lines))
         IN IF ln = <<>> \/ Head(ln) = "c" THEN ParseLines(Tail(lines), st)
            ELSE IF Head(ln) = "p"
                 THEN LET parts == Split(ln)
                      IN IF Len(parts) < 2 THEN [st EXCEPT !.status = "IndexError"]
                         ELSE IF parts[2] # <<"c", "n", "f">>
                              THEN [st EXCEPT !.status = "AssertionError"]
                              ELSE IF Len(parts) < 3 THEN [st EXCEPT !.status = "IndexError"]
                                   ELSE LET n == IntOf(parts[3])
                                        IN IF ~n.ok THEN [st EXCEPT !.status = "ValueError"]
                                           ELSE ParseLines(Tail(lines),
                                                    [st EXCEPT !.num_vars = n.val])
                 ELSE LET r == ParseLits(Split(ln), <<>>)
                      IN IF ~r.ok THEN [st EXCEPT !.status = "ValueError"]
                         ELSE IF r.lits = <<>> THEN ParseLines(Tail(lines), st)
                              ELSE ParseLines(Tail(lines),
                                       [st EXCEPT !.clauses = Append(@, r.lits),
                                                  !.num_vars = Max2(@, MaxMagLits(r.lits))])

\* parse_dimacs(text)
ParseDimacs(text) ==
    ParseLines(SplitLines(text), [status |-> "ok", num_vars |-> 0, clauses |-> <<>>])

\* ------------------------------------------------------------- add_clause
\* An add_clause that sets num_vars to the largest magnitude of the new
\* clause alone.
AddClauseNoMax(c, clause) ==
    LET cl == Without(clause, 0)
    IN [num_vars |-> MaxMagLits(cl), clauses |-> Append(c.clauses, cl)]

\* CNF.add_clause(clause): zeros are filtered out, the clause is appended,
\* num_vars is raised to the largest magnitude.
AddClauseResult(c, clause) ==
    LET cl == Without(clause, 0)
    IN [num_vars |-> Max2(c.num_vars, MaxMagLits(cl)), clauses |-> Append(c.clauses, cl)]

\* ------------------------------------------------------------------- state
VARIABLES
    cnf,            \* the caller's CNF object: [num_vars, clauses]
    tmode,          \* how the caller asks for a trace: "none" or "fresh"
    limit,          \* how many dpll calls the caller makes on cnf
    use_heuristic,  \* the use_heuristic argument of the running or last call
    assign,         \* the assignment dict shared by all activations
    trace,          \* the trace argument: [given, events]
    stats,          \* the Stats object the call counts in
    stack,          \* the activations of _dpll_rec, innermost last
    ret,            \* the value an activation has just returned
    result,         \* what the last finished dpll call returned
    phase,          \* "idle", "running" or "raised" (an exception escaped)
    calls,          \* finished dpll calls
    call_cnf,       \* cnf as it was when the running or last call started
    steps,          \* steps the running or last call has taken
    text,           \* the DIMACS text the caller holds: [set, chars]
    parsed,         \* what parse_dimacs made of text: [set, status, cnf]
    checked,        \* a call of formula_satisfied(cnf, model): [set, model, value]
    prev,           \* the call before the running or last one: its use_heuristic,
                    \* result, stats and trace at its return; stats_reused tells
                    \* that its Stats object was handed to the call after it
    tally,          \* the decisions, propagations and backtracks that the running
                    \* or last call made
    probe           \* a direct call of one function: its arguments and its value

vars == <<cnf, tmode, limit, use_heuristic, assign, trace, stats, stack, ret,
          result, phase, calls, call_cnf, steps, text, parsed, checked, prev,
          tally, probe>>

NoRet == [set |-> FALSE, sat |-> FALSE, model |-> EmptyAssign]
Returned(sat, model) == [set |-> TRUE, sat |-> sat, model |-> model]

NoPrev == [set |-> FALSE, heuristic |-> FALSE, stats_reused |-> FALSE, result |-> NoRet,
           stats |-> ZeroStats, trace |-> NoTrace]

\* CNF(num_vars, clauses) as the caller builds it.
Formulas ==
    UNION {{[num_vars |-> n, clauses |-> cs] : n \in MaxMag(cs)..MaxVar} : cs \in ClauseLists}

\* The list objects of the caller's formula, as they are (clauses =
\* list(cnf.clauses), a copy of the outer list only).
RECURSIVE SharedFrom(_, _)
SharedFrom(clauses, i) ==
    IF i > Len(clauses) THEN <<>>
    ELSE <<[lits |-> clauses[i], ref |-> i]>> \o SharedFrom(clauses, i + 1)

SharedClauses(clauses) == SharedFrom(clauses, 1)

\* clauses = [cl[:] for cl in cnf.clauses]
CopyClauses(clauses) == [i \in 1..Len(clauses) |-> Fresh(clauses[i])]

\* An assignment dict that outlives the call (a shared default argument).
KeepAssign(old) == old

\* assign: Assignment = {} at the start of every call; old is the dict of the
\* call before.
InitialAssign(old) == EmptyAssign

\* base is the assignment dict as it was just before the activation's latest
\* decision (line 268).
Frame(clauses) ==
    [clauses |-> clauses, pc |-> "unit", v |-> 0, preferred |-> TRUE, idx |-> 0,
     base |-> EmptyAssign]

Top == stack[Len(stack)]
Pop == SubSeq(stack, 1, Len(stack) - 1)
SetTop(f) == [stack EXCEPT ![Len(stack)] = f]

callerVars == <<cnf, tmode, limit, text, parsed, checked, probe>>
solverVars == <<use_heuristic, assign, trace, stats, stack, ret, result, phase, calls,
                call_cnf, steps, prev, tally>>

NoTally == [decisions |-> 0, propagations |-> 0, backtracks |-> 0]

\* The tally after a step that took the assignment dict from a to b: every
\* propagation (lines 88-90, 144-146) gives one new key to the dict.
Propagated(t, a, b) ==
    [t EXCEPT !.propagations = @ + Cardinality(DOMAIN b) - Cardinality(DOMAIN a)]
NoProbe == [op |-> "none"]

NoText == [set |-> FALSE, chars |-> <<>>]
NoParse == [set |-> FALSE, status |-> "ok", cnf |-> [num_vars |-> 0, clauses |-> <<>>]]
NoCheck == [set |-> FALSE, model |-> EmptyAssign, value |-> FALSE]

\* The innermost activation is at the given point of _dpll_rec.
AtPc(pc) == phase = "running" /\ stack # <<>> /\ Top.pc = pc

InitSolver ==
    /\ use_heuristic = FALSE
    /\ assign = EmptyAssign
    /\ trace = NoTrace
    /\ stats = ZeroStats
    /\ stack = <<>>
    /\ ret = NoRet
    /\ result = NoRet
    /\ phase = "idle"
    /\ calls = 0
    /\ steps = 0
    /\ call_cnf = [num_vars |-> 0, clauses |-> <<>>]
    /\ prev = NoPrev
    /\ tally = NoTally
    /\ probe = NoProbe
    /\ text = NoText
    /\ parsed = NoParse
    /\ checked = NoCheck

\* One dpll call, with or without a trace.
Init ==
    /\ cnf \in Formulas
    /\ tmode \in {"none", "fresh"}
    /\ limit = 1
    /\ InitSolver

\* Repeated dpll calls on the same CNF object, each with a fresh Trace.
InitRepeat ==
    /\ cnf \in Formulas
    /\ tmode = "fresh"
    /\ limit = MaxCalls
    /\ InitSolver

\* ----------------------------------------------------------------- actions
\* dpll(cnf, trace, use_heuristic, stats) up to the call of _dpll_rec; the
\* caller passes a new Stats (or none), or the Stats object of its last call.
Call(h, same_stats) ==
    /\ phase = "idle"
    /\ calls < limit
    /\ same_stats => calls > 0
    /\ use_heuristic' = h
    /\ assign' = InitialAssign(assign)
    /\ trace' = IF tmode = "fresh" THEN FreshTrace ELSE NoTrace
    /\ stats' = IF same_stats THEN stats ELSE ZeroStats
    /\ stack' = <<Frame(CopyClauses(cnf.clauses))>>
    /\ ret' = NoRet
    /\ phase' = "running"
    /\ call_cnf' = cnf
    /\ steps' = 0
    /\ prev' = IF calls > 0
               THEN [set |-> TRUE, heuristic |-> use_heuristic, stats_reused |-> same_stats,
                     result |-> result, stats |-> stats, trace |-> trace]
               ELSE prev
    /\ tally' = NoTally
    /\ UNCHANGED <<callerVars, result, calls>>

\* One pass of the while loop of _unit_propagate, and on leaving the loop
\* steps 1 and 2 of _dpll_rec (lines 246-252).
UnitPass ==
    /\ AtPc("unit")
    /\ LET r == UnitPassResult(Top.clauses, assign, trace, stats)
       IN /\ assign' = r.assign
          /\ stats' = r.stats
          /\ IF r.conflict
             THEN /\ trace' = r.trace
                  /\ stack' = Pop
                  /\ ret' = Returned(FALSE, EmptyAssign)
             ELSE IF r.exited
                  THEN IF r.clauses = <<>>
                       THEN /\ trace' = AppendIfTruthy(r.trace, Event("sat", 0, FALSE, ""))
                            /\ stack' = Pop
                            /\ ret' = Returned(TRUE, r.assign)
                       ELSE /\ trace' = r.trace
                            /\ stack' = SetTop([Top EXCEPT !.clauses = r.clauses, !.pc = "pure"])
                            /\ ret' = ret
                  ELSE /\ trace' = r.trace
                       /\ stack' = SetTop([Top EXCEPT !.clauses = r.clauses])
                       /\ ret' = ret
          /\ tally' = Propagated(tally, assign, r.assign)
    /\ steps' = steps + 1
    /\ UNCHANGED <<callerVars, use_heuristic, result, phase, calls, call_cnf, prev>>

\* Step 3 of _dpll_rec: one call of _pure_literal_elimination.
PureStep ==
    /\ AtPc("pure")
    /\ LET r == PureLiteralElimination(Top.clauses, assign, trace, stats)
       IN /\ assign' = r.assign
          /\ stats' = r.stats
          /\ trace' = r.trace
          /\ stack' = SetTop([Top EXCEPT !.clauses = r.clauses,
                                         !.pc = IF r.changed THEN "unit" ELSE "choose"])
          /\ tally' = Propagated(tally, assign, r.assign)
    /\ steps' = steps + 1
    /\ UNCHANGED <<callerVars, use_heuristic, ret, result, phase, calls, call_cnf, prev>>

\* Step 4 of _dpll_rec.
Choose ==
    /\ AtPc("choose")
    /\ LET c == ChooseUnassigned(Top.clauses, assign, use_heuristic)
       IN IF c.v = 0
          THEN /\ trace' = AppendIfTruthy(trace, Event("sat", 0, FALSE, ""))
               /\ stack' = Pop
               /\ ret' = Returned(TRUE, assign)
          ELSE /\ trace' = trace
               /\ stack' = SetTop([Top EXCEPT !.v = c.v, !.preferred = c.pol,
                                              !.idx = 1, !.pc = "branch"])
               /\ ret' = ret
    /\ steps' = steps + 1
    /\ UNCHANGED <<callerVars, use_heuristic, assign, stats, result, phase, calls,
                   call_cnf, prev, tally>>

\* Step 5, one polarity: the decision, the simplification, and the recursive
\* call unless a clause became empty.
Decide ==
    /\ AtPc("branch")
    /\ LET val == IF Top.idx = 1 THEN Top.preferred ELSE ~Top.preferred
           pos == IF val THEN Top.v ELSE 0 - Top.v
           tr1 == AppendIfTruthy(trace, Event("decide", Top.v, val, ""))
           r == DecideSimplify(Top.clauses, pos)
       IN /\ assign' = Put(assign, Top.v, val)
          /\ stats' = [stats EXCEPT !.decisions = @ + 1]
          /\ IF r.empty
             THEN /\ trace' = AppendIfTruthy(tr1,
                                  Event("conflict", Top.v, val, "empty clause after decide"))
                  /\ stack' = SetTop([Top EXCEPT !.pc = "failed", !.base = assign])
             ELSE /\ trace' = tr1
                  /\ stack' = Append(SetTop([Top EXCEPT !.pc = "wait", !.base = assign]),
                                     Frame(r.clauses))
    /\ tally' = [tally EXCEPT !.decisions = @ + 1]
    /\ steps' = steps + 1
    /\ UNCHANGED <<callerVars, use_heuristic, ret, result, phase, calls, call_cnf, prev>>

\* The recursive call returns into its caller (lines 293-295).
Resume ==
    /\ AtPc("wait") /\ ret.set
    /\ IF ret.sat
       THEN /\ stack' = Pop
            /\ ret' = ret
       ELSE /\ stack' = SetTop([Top EXCEPT !.pc = "failed"])
            /\ ret' = NoRet
    /\ steps' = steps + 1
    /\ UNCHANGED <<callerVars, use_heuristic, assign, trace, stats, result, phase, calls,
                   call_cnf, prev, tally>>

\* A backtrack that is counted only when both polarities have failed.
BacktrackCountedPerVariable ==
    /\ AtPc("failed")
    /\ stats' = IF Top.idx = 1 THEN stats ELSE [stats EXCEPT !.backtracks = @ + 1]
    /\ trace' = AppendIfTruthy(trace,
                    Event("backtrack", Top.v,
                          IF Top.idx = 1 THEN Top.preferred ELSE ~Top.preferred, ""))
    /\ IF Top.v \notin DOMAIN assign
       THEN /\ phase' = "raised"
            /\ UNCHANGED <<assign, stack, ret>>
       ELSE /\ phase' = phase
            /\ assign' = Del(assign, Top.v)
            /\ IF Top.idx = 1
               THEN /\ stack' = SetTop([Top EXCEPT !.idx = 2, !.pc = "branch"])
                    /\ ret' = ret
               ELSE /\ stack' = Pop
                    /\ ret' = Returned(FALSE, EmptyAssign)
    /\ tally' = [tally EXCEPT !.backtracks = @ + 1]
    /\ steps' = steps + 1
    /\ UNCHANGED <<callerVars, use_heuristic, result, calls, call_cnf, prev>>

\* The branch failed (lines 297-300), then the next polarity or line 303.
\* del assign[v] raises KeyError when v is not a key.
Backtrack ==
    /\ AtPc("failed")
    /\ stats' = [stats EXCEPT !.backtracks = @ + 1]
    /\ trace' = AppendIfTruthy(trace,
                    Event("backtrack", Top.v,
                          IF Top.idx = 1 THEN Top.preferred ELSE ~Top.preferred, ""))
    /\ IF Top.v \notin DOMAIN assign
       THEN /\ phase' = "raised"
            /\ UNCHANGED <<assign, stack, ret>>
       ELSE /\ phase' = phase
            /\ assign' = Del(assign, Top.v)
            /\ IF Top.idx = 1
               THEN /\ stack' = SetTop([Top EXCEPT !.idx = 2, !.pc = "branch"])
                    /\ ret' = ret
               ELSE /\ stack' = Pop
                    /\ ret' = Returned(FALSE, EmptyAssign)
    /\ tally' = [tally EXCEPT !.backtracks = @ + 1]
    /\ steps' = steps + 1
    /\ UNCHANGED <<callerVars, use_heuristic, result, calls, call_cnf, prev>>

\* dpll returns (sat, model) to its caller.
Return ==
    /\ phase = "running" /\ stack = <<>> /\ ret.set
    /\ result' = ret
    /\ ret' = NoRet
    /\ phase' = "idle"
    /\ calls' = calls + 1
    /\ steps' = steps + 1
    /\ UNCHANGED <<callerVars, use_heuristic, assign, trace, stats, stack, call_cnf, prev,
                   tally>>

\* ------------------------------------------------- the CNF container alone
\* The caller builds a formula, then either writes and reads it back as
\* DIMACS text or checks an assignment against it.
InitCnf ==
    /\ cnf \in Formulas
    /\ tmode = "none"
    /\ limit = 0
    /\ InitSolver

\* The clauses a caller passes to add_clause: literal 0 may occur.
InputClauses == UNION {[1..k -> Lits \cup {0}] : k \in 0..MaxClauseLen}

\* The assignments a caller checks: any subset of the variables assigned.
PartialAssignments == UNION {[D -> BOOLEAN] : D \in SUBSET Vars}

AddClause(clause) ==
    /\ limit = 0 /\ ~text.set /\ ~checked.set
    /\ Len(cnf.clauses) < MaxClauses
    /\ cnf' = AddClauseResult(cnf, clause)
    /\ UNCHANGED <<tmode, limit, text, parsed, checked, probe, solverVars>>

WriteDimacs ==
    /\ limit = 0 /\ ~text.set /\ ~checked.set
    /\ text' = [set |-> TRUE, chars |-> ToDimacs(cnf)]
    /\ UNCHANGED <<cnf, tmode, limit, parsed, checked, probe, solverVars>>

ReadDimacs ==
    /\ limit = 0 /\ text.set /\ ~parsed.set
    /\ LET r == ParseDimacs(text.chars)
       IN parsed' = [set |-> TRUE, status |-> r.status,
                     cnf |-> [num_vars |-> r.num_vars, clauses |-> r.clauses]]
    /\ UNCHANGED <<cnf, tmode, limit, text, checked, probe, solverVars>>

CheckModel(model) ==
    /\ limit = 0 /\ ~text.set /\ ~checked.set
    /\ checked' = [set |-> TRUE, model |-> model, value |-> FormulaSatisfied(cnf, model)]
    /\ UNCHANGED <<cnf, tmode, limit, text, parsed, probe, solverVars>>

NextCnf ==
    \/ \E clause \in InputClauses : AddClause(clause)
    \/ WriteDimacs
    \/ ReadDimacs
    \/ \E model \in PartialAssignments : CheckModel(model)

SpecCnf == InitCnf /\ [][NextCnf]_vars

\* ------------------------------------- a checked assignment and its completions
\* b has every key of a with the same value (b only adds variables).
Extends(b, a) == (DOMAIN a) \subseteq (DOMAIN b) /\ \A v \in DOMAIN a : b[v] = a[v]

\* The assignment the model line of solve_cnf.py shows: for v in
\* 1..num_vars, model.get(v, False).
PrintedModel(c, model) ==
    [v \in 1..c.num_vars |-> IF v \in DOMAIN model THEN model[v] ELSE FALSE]

\* formula_satisfied(cnf, ext) for an assignment that extends the checked one.
CheckExtension(ext) ==
    /\ limit = 0 /\ checked.set /\ probe.op = "none"
    /\ Extends(ext, checked.model)
    /\ probe' = [op |-> "extension", model |-> ext, value |-> FormulaSatisfied(cnf, ext)]
    /\ UNCHANGED <<cnf, tmode, limit, text, parsed, checked, solverVars>>

\* formula_satisfied on the assignment as the model line completes it.
CheckPrinted ==
    /\ limit = 0 /\ checked.set /\ probe.op = "none"
    /\ LET m == PrintedModel(cnf, checked.model)
       IN probe' = [op |-> "printed", model |-> m, value |-> FormulaSatisfied(cnf, m)]
    /\ UNCHANGED <<cnf, tmode, limit, text, parsed, checked, solverVars>>

NextExtend ==
    \/ ~checked.set /\ \E model \in PartialAssignments : CheckModel(model)
    \/ checked.set /\ probe.op = "none" /\
          \E ext \in PartialAssignments : CheckExtension(ext)
    \/ CheckPrinted

SpecExtend == InitCnf /\ [][NextExtend]_vars

\* A formula built by add_clause alone, from CNF(num_vars=n) with no clauses
\* (as encode builds it).
InitBuild ==
    /\ cnf \in {[num_vars |-> n, clauses |-> <<>>] : n \in 0..MaxVar}
    /\ tmode = "none"
    /\ limit = 0
    /\ InitSolver

NextBuild == \E clause \in InputClauses : AddClause(clause)

SpecBuild == InitBuild /\ [][NextBuild]_vars

\* --------------------------------------------------- parse_dimacs on any text
\* The lines a DIMACS file is made of here: problem lines (well-formed, with
\* another format token, cut short), clause lines (integers, and one with a
\* token that is no integer), a comment and an empty line.
MaxLines == 2

FileLines ==
    { <<"p", " ", "c", "n", "f", " ", "1", " ", "1">>,
      <<"p", " ", "d", "n", "f", " ", "1", " ", "1">>,
      <<"p">>,
      <<"1", " ", "0">>,
      <<"-", "1", " ", "2", " ", "0">>,
      <<"x", " ", "0">>,
      <<"c", " ", "x">>,
      <<>> }

RECURSIVE JoinLines(_)
JoinLines(lines) ==
    IF lines = <<>> THEN <<>> ELSE Head(lines) \o <<NL>> \o JoinLines(Tail(lines))

FileTexts == {JoinLines(ls) : ls \in UNION {[1..k -> FileLines] : k \in 0..MaxLines}}

InitParse ==
    /\ cnf = [num_vars |-> 0, clauses |-> <<>>]
    /\ tmode = "none"
    /\ limit = 0
    /\ InitSolver

\* The caller reads a file (parse_dimacs_file).
ReadFile(chars) ==
    /\ limit = 0 /\ ~text.set
    /\ text' = [set |-> TRUE, chars |-> chars]
    /\ UNCHANGED <<cnf, tmode, limit, parsed, checked, probe, solverVars>>

NextParse ==
    \/ ~text.set /\ \E chars \in FileTexts : ReadFile(chars)
    \/ ReadDimacs

SpecParse == InitParse /\ [][NextParse]_vars

\* ------------------------------------- the helper functions called directly
\* The clause lists of the repository's tests of the helpers.
DlisExamples ==
    { << <<1, 1, -2>>, <<1>>, <<3, -2>> >>,
      << <<-2, -2, 1>>, <<-2>>, <<3, 1>> >> }

PureExamples == { << <<1, -3>>, <<2, -3>> >> }

\* The propagation counter of the Stats handed to a helper.
StatsBefore == {[ZeroStats EXCEPT !.propagations = n] : n \in 0..1}

InitFn ==
    /\ cnf = [num_vars |-> 0, clauses |-> <<>>]
    /\ tmode = "none"
    /\ limit = 0
    /\ InitSolver

\* _dlis_lite_choice(clauses, assign)
DlisCall(clauses, a) ==
    /\ limit = 0 /\ probe.op = "none"
    /\ LET d == DlisLiteChoice(CopyClauses(clauses), a)
       IN probe' = [op |-> "dlis", clauses |-> clauses, assign |-> a, v |-> d.v, pol |-> d.pol]
    /\ UNCHANGED <<cnf, tmode, limit, text, parsed, checked, solverVars>>

\* _pure_literal_elimination(clauses, assign, trace, stats)
PureCall(clauses, a, st) ==
    /\ limit = 0 /\ probe.op = "none"
    /\ LET r == PureLiteralElimination(CopyClauses(clauses), a, NoTrace, st)
       IN probe' = [op |-> "pure", clauses |-> clauses, assign |-> a, stats |-> st,
                    out_clauses |-> [i \in 1..Len(r.clauses) |-> r.clauses[i].lits],
                    out_assign |-> r.assign, out_stats |-> r.stats,
                    changed |-> r.changed]
    /\ UNCHANGED <<cnf, tmode, limit, text, parsed, checked, solverVars>>

\* One helper is called once, on any clause list and assignment.
NextFn ==
    /\ probe.op = "none"
    /\ \/ \E clauses \in ClauseLists \cup DlisExamples, a \in PartialAssignments :
             DlisCall(clauses, a)
       \/ \E clauses \in ClauseLists \cup PureExamples, a \in PartialAssignments,
             st \in StatsBefore : PureCall(clauses, a, st)

SpecFn == InitFn /\ [][NextFn]_vars

Next ==
    \/ \E h \in BOOLEAN, same_stats \in BOOLEAN : Call(h, same_stats)
    \/ UnitPass
    \/ PureStep
    \/ Choose
    \/ Decide
    \/ Resume
    \/ Backtrack
    \/ Return

Spec == Init /\ [][Next]_vars

SpecRepeat == InitRepeat /\ [][Next]_vars

\* ------------------------------------------------- the timetabling encoder
\* An Instance: courses, rooms and times are the lists 1..nC, 1..nR, 1..nT
\* of distinct identifiers (an identifier is its own position, index + 1);
\* teacher_of maps every course to a teacher; teacher_available maps some
\* teachers to the times they allow.
MaxCourses == 2
MaxRooms == 2
MaxTimes == 2
MaxTeachers == 2

Teachers == 1..MaxTeachers

Instances ==
    UNION {UNION {UNION {
        {[nC |-> c, nR |-> r, nT |-> t, teacher_of |-> f, teacher_available |-> a] :
            f \in [1..c -> Teachers],
            a \in UNION {[D -> SUBSET (1..t)] : D \in SUBSET Teachers}}
        : t \in 0..MaxTimes} : r \in 0..MaxRooms} : c \in 0..MaxCourses}

\* A layout that strides rooms by the number of rooms.
VarIndexRoomStride(inst, c, r, t) == 1 + (c - 1) * (inst.nR * inst.nT) + (r - 1) * inst.nR + (t - 1)

\* var_index(inst, c, r, t) = 1 + ci * (nR * nT) + ri * nT + ti
VarIndex(inst, c, r, t) == 1 + (c - 1) * (inst.nR * inst.nT) + (r - 1) * inst.nT + (t - 1)

\* The concatenation of a sequence of sequences.
RECURSIVE Flatten(_)
Flatten(ss) == IF ss = <<>> THEN <<>> ELSE Head(ss) \o Flatten(Tail(ss))

\* The k-th (room, time) of "for r in R for t in T".
RoomOf(inst, k) == ((k - 1) \div inst.nT) + 1
TimeOf(inst, k) == ((k - 1) % inst.nT) + 1

\* ids = [var_index(inst, c, r, t) for r in R for t in T]
CourseIds(inst, c) ==
    [k \in 1..(inst.nR * inst.nT) |-> VarIndex(inst, c, RoomOf(inst, k), TimeOf(inst, k))]

\* The pairwise clauses [-ids[i], -ids[j]] for i < j.
AtMostOne(ids) ==
    Flatten([i \in 1..Len(ids) |-> [j \in 1..(Len(ids) - i) |-> <<0 - ids[i], 0 - ids[i + j]>>]])

\* (1) exactly one (room, time) for each course.
ExactlyOneClauses(inst) ==
    Flatten([c \in 1..inst.nC |-> <<CourseIds(inst, c)>> \o AtMostOne(CourseIds(inst, c))])

\* (2) at most one course per (room, time).
RoomClauses(inst) ==
    Flatten([k \in 1..(inst.nR * inst.nT) |->
                AtMostOne([c \in 1..inst.nC |->
                              VarIndex(inst, c, RoomOf(inst, k), TimeOf(inst, k))])])

\* (3) two courses of one teacher never at the same time.
TeacherClauses(inst) ==
    Flatten([i \in 1..inst.nC |-> Flatten([d \in 1..(inst.nC - i) |->
        IF inst.teacher_of[i] # inst.teacher_of[i + d] THEN <<>>
        ELSE Flatten([t \in 1..inst.nT |-> Flatten([a \in 1..inst.nR |->
                 [b \in 1..inst.nR |->
                     <<0 - VarIndex(inst, i, a, t), 0 - VarIndex(inst, i + d, b, t)>>]])])])])

\* allowed = set(inst.teacher_available.get(teacher, T))
Allowed(inst, c) ==
    IF inst.teacher_of[c] \in DOMAIN inst.teacher_available
    THEN inst.teacher_available[inst.teacher_of[c]]
    ELSE 1..inst.nT

\* (4) teacher availability.
AvailabilityClauses(inst) ==
    Flatten([c \in 1..inst.nC |-> Flatten([t \in 1..inst.nT |->
        IF t \in Allowed(inst, c) THEN <<>>
        ELSE [r \in 1..inst.nR |-> <<0 - VarIndex(inst, c, r, t)>>]])])

RECURSIVE AddAll(_, _)
AddAll(c, clauses) ==
    IF clauses = <<>> THEN c ELSE AddAll(AddClauseResult(c, Head(clauses)), Tail(clauses))

\* encode(inst)
Encode(inst) ==
    AddAll([num_vars |-> inst.nC * inst.nR * inst.nT, clauses |-> <<>>],
           ExactlyOneClauses(inst) \o RoomClauses(inst) \o TeacherClauses(inst)
               \o AvailabilityClauses(inst))

\* decode(inst, model): the (c, r, t) with model.get(v) is True, in loop order.
Decode(inst, model) ==
    Flatten([c \in 1..inst.nC |-> Flatten([k \in 1..(inst.nR * inst.nT) |->
        LET v == VarIndex(inst, c, RoomOf(inst, k), TimeOf(inst, k))
        IN IF v \in DOMAIN model /\ model[v]
           THEN << <<c, RoomOf(inst, k), TimeOf(inst, k)>> >>
           ELSE <<>>])])

InitTT ==
    /\ cnf = [num_vars |-> 0, clauses |-> <<>>]
    /\ tmode = "none"
    /\ limit = 0
    /\ InitSolver

\* cnf = encode(inst)
EncodeInstance(inst) ==
    /\ limit = 0 /\ probe.op = "none"
    /\ probe' = [op |-> "encode", inst |-> inst, cnf |-> Encode(inst)]
    /\ UNCHANGED <<cnf, tmode, limit, text, parsed, checked, solverVars>>

\* A total assignment is checked against the encoding and decoded.
DecodeModel(model) ==
    /\ limit = 0 /\ probe.op = "encode"
    /\ probe' = [op |-> "decode", inst |-> probe.inst, cnf |-> probe.cnf, model |-> model,
                 satisfied |-> FormulaSatisfied(probe.cnf, model),
                 schedule |-> Decode(probe.inst, model)]
    /\ UNCHANGED <<cnf, tmode, limit, text, parsed, checked, solverVars>>

NextTT ==
    \/ probe.op = "none" /\ \E inst \in Instances : EncodeInstance(inst)
    \/ probe.op = "encode" /\
          \E model \in [1..(probe.inst.nC * probe.inst.nR * probe.inst.nT) -> BOOLEAN] :
             DecodeModel(model)

SpecTT == InitTT /\ [][NextTT]_vars

\* ================================================================== claims
\* A dpll call has returned to the caller.
Finished == phase = "idle" /\ calls > 0 /\ result.set

\* Exhaustive enumeration of the total assignments over 1..num_vars.
TotalAssignments(c) == [1..c.num_vars -> BOOLEAN]
LiteralTrue(l, m) == IF l > 0 THEN m[l] ELSE ~m[0 - l]
BruteForceSat(c) ==
    \E m \in TotalAssignments(c) :
        \A i \in 1..Len(c.clauses) :
            \E j \in 1..Len(c.clauses[i]) : LiteralTrue(c.clauses[i][j], m)

HasEmptyClause(c) == \E i \in 1..Len(c.clauses) : c.clauses[i] = <<>>

\* C1 (soundness): whenever dpll returns (True, A), formula_satisfied(F, A)
\* holds for the caller's formula F, with either heuristic setting.
C1_Soundness ==
    (Finished /\ result.sat) => FormulaSatisfied(cnf, result.model)

\* C2 (completeness): the verdict of dpll equals the verdict of brute-force
\* enumeration of all total assignments.
C2_VerdictIsBruteForce ==
    Finished => (result.sat = BruteForceSat(cnf))

\* C3: a formula that holds an empty clause is reported unsatisfiable.
C3_EmptyClauseUnsat ==
    (Finished /\ HasEmptyClause(cnf)) => ~result.sat

\* -------------------------------------------------------------------- C4
\* No clause of any activation's working list is a list object of the caller.
PrivateClauses ==
    \A i \in 1..Len(stack) :
        \A j \in 1..Len(stack[i].clauses) : stack[i].clauses[j].ref = 0

\* C4: dpll works on a private copy and leaves cnf.num_vars and cnf.clauses
\* as they were when the call started, during the call and after it, for
\* every call on the same CNF object.
C4_CallerFormulaUntouched ==
    (phase = "running" \/ Finished) => (cnf = call_cnf /\ PrivateClauses)

\* The same CNF has been solved a second time after a call that backtracked.
C4_Witness ==
    /\ Finished /\ calls = 2 /\ prev.set
    /\ prev.stats.backtracks > 0
    /\ cnf.clauses # <<>>

\* -------------------------------------------------------------------- C5
\* Step 5 is entered with a variable that occurs in the clauses and is no key
\* of assign.
DecisionOnUnassigned ==
    \A i \in 1..Len(stack) :
        stack[i].pc = "branch" =>
            (stack[i].v \in 1..call_cnf.num_vars /\ (i = Len(stack) => stack[i].v \notin DOMAIN assign))

\* The activations of one call form a binary tree of depth at most n, the
\* number of variables; an activation takes at most n + 1 unit passes per
\* round, at most n + 1 rounds of pure-literal elimination, one choice, two
\* decisions, two resumptions and two backtracks.
StepBound(c) == (2 ^ (c.num_vars + 1) - 1) * (3 * (c.num_vars + 1) + 7) + 2

\* The guard of one of the steps of a running call holds.
CanStep ==
    \/ AtPc("unit") \/ AtPc("pure") \/ AtPc("choose") \/ AtPc("branch") \/ AtPc("failed")
    \/ (AtPc("wait") /\ ret.set)
    \/ (phase = "running" /\ stack = <<>> /\ ret.set)

\* C5: every dpll call returns a boolean verdict after finitely many steps
\* (passes of the unit-propagation loop, rounds of the propagate/pure loop,
\* activations): a running call can always take a step, the steps of a call
\* are bounded, every decision is on an unassigned variable, and no
\* exception escapes.
C5_Terminates ==
    /\ phase # "raised"
    /\ DecisionOnUnassigned
    /\ steps <= StepBound(call_cnf)
    /\ (phase = "running" => CanStep)
    /\ (Finished => result.sat \in BOOLEAN)

\* A call that needed unit propagation, a decision and a backtrack returned.
C5_Witness ==
    /\ Finished
    /\ stats.backtracks > 0 /\ stats.propagations > 0

\* -------------------------------------------------------------------- C6
\* C6 (determinism): a second dpll call on the same formula with the same
\* use_heuristic returns the same verdict and assignment as the first and
\* leaves an equal trace; started from equal stats it leaves equal stats.
C6_Deterministic ==
    (Finished /\ prev.set /\ prev.heuristic = use_heuristic) =>
        /\ result = prev.result
        /\ trace = prev.trace
        /\ (~prev.stats_reused => stats = prev.stats)

\* Two calls with the same setting, both satisfiable after a backtrack.
C6_Witness ==
    /\ Finished /\ prev.set /\ prev.heuristic = use_heuristic
    /\ ~prev.stats_reused
    /\ result.sat /\ stats.backtracks > 0

\* -------------------------------------------------------------------- C7
Contradiction(c) ==
    \E v \in Vars : c.clauses = <<<<v>>, <<0 - v>>>>

HasEvent(kind) == \E i \in 1..Len(trace.events) : trace.events[i].kind = kind

\* C7: called with a fresh Trace on [[v],[-v]], dpll reports unsatisfiable
\* and leaves at least one "conflict" event in the trace.
C7_ContradictionTraced ==
    (Finished /\ tmode = "fresh" /\ Contradiction(cnf)) =>
        (~result.sat /\ HasEvent("conflict"))

\* -------------------------------------------------------------------- C8
\* C8: with a fresh Trace, the last event after dpll returns is "sat" for a
\* satisfiable verdict and "conflict" for an unsatisfiable one.
C8_LastEventIsVerdict ==
    (Finished /\ tmode = "fresh") =>
        /\ trace.events # <<>>
        /\ trace.events[Len(trace.events)].kind = (IF result.sat THEN "sat" ELSE "conflict")

\* -------------------------------------------------------------------- C9
\* C9 (DIMACS round trip): parse_dimacs(F.to_dimacs()) has the num_vars and
\* the clause list of F, for every F, empty clauses included.
C9_RoundTrip ==
    (parsed.set /\ text.chars = ToDimacs(cnf)) =>
        (parsed.status = "ok" /\ parsed.cnf = cnf)

\* ------------------------------------------------------------------- C10
\* The literal l is made true by an explicit entry of the assignment.
Matches(l, model) == Abs(l) \in DOMAIN model /\ model[Abs(l)] = (l > 0)

\* C10: formula_satisfied(F, A) is true iff every clause has a literal whose
\* variable is a key of A with the value of the literal's polarity; so a
\* clause without an assigned variable is unsatisfied, and so is a formula
\* that holds [v] and [-v], whatever the (possibly partial) assignment.
C10_SatisfiedIffEveryClauseMatched ==
    checked.set =>
        /\ checked.value =
               (\A i \in 1..Len(cnf.clauses) :
                    \E j \in 1..Len(cnf.clauses[i]) : Matches(cnf.clauses[i][j], checked.model))
        /\ (\E i \in 1..Len(cnf.clauses) :
                \A j \in 1..Len(cnf.clauses[i]) :
                    Abs(cnf.clauses[i][j]) \notin DOMAIN checked.model) => ~checked.value
        /\ (\E v \in Vars : \E i, k \in 1..Len(cnf.clauses) :
                cnf.clauses[i] = <<v>> /\ cnf.clauses[k] = <<0 - v>>) => ~checked.value

\* A partial assignment satisfies a formula one of whose clauses also has an
\* unassigned variable.
C10_Witness ==
    /\ checked.set /\ checked.value
    /\ DOMAIN checked.model # Vars
    /\ \E i \in 1..Len(cnf.clauses) : \E j \in 1..Len(cnf.clauses[i]) :
           Abs(cnf.clauses[i][j]) \notin DOMAIN checked.model

\* C11: after any sequence of add_clause calls on a CNF that started with no
\* clauses, num_vars is at least the largest literal magnitude of the stored
\* clauses and no stored clause holds the literal 0; each add_clause appends
\* one clause (an empty one too) and never lowers num_vars.
C11_AddClauseInvariants ==
    /\ [](/\ cnf.num_vars >= MaxMag(cnf.clauses)
          /\ \A i \in 1..Len(cnf.clauses) : ~InClause(0, cnf.clauses[i]))
    /\ [][/\ cnf'.num_vars >= cnf.num_vars
          /\ Len(cnf'.clauses) = Len(cnf.clauses) + 1
          /\ SubSeq(cnf'.clauses, 1, Len(cnf.clauses)) = cnf.clauses]_vars

\* add_clause kept an empty clause, raised num_vars for a literal of
\* magnitude MaxVar and left it there when a smaller literal came later.
C11_Witness ==
    /\ limit = 0 /\ Len(cnf.clauses) = MaxClauses
    /\ cnf.clauses[1] = <<>>
    /\ cnf.clauses[2] = <<MaxVar>>
    /\ cnf.clauses[3] = <<1>>
    /\ cnf.num_vars = MaxVar

\* The lines parse_dimacs looks at: stripped, not empty, no comment.
RECURSIVE Significant(_)
Significant(lines) ==
    IF lines = <<>> THEN <<>>
    ELSE LET ln == Strip(Head(lines))
         IN IF ln = <<>> \/ Head(ln) = "c" THEN Significant(Tail(lines))
            ELSE <<Split(ln)>> \o Significant(Tail(lines))

IsProblemLine(toks) == toks[1] = <<"p">>
IsInteger(tok) == IntOf(tok).ok

\* No problem line, a problem line whose format token is not "cnf", or a
\* clause token that is no integer.
Malformed(chars) ==
    LET ls == Significant(SplitLines(chars))
    IN \/ \A i \in 1..Len(ls) : ~IsProblemLine(ls[i])
       \/ \E i \in 1..Len(ls) :
             IsProblemLine(ls[i]) /\ (Len(ls[i]) < 2 \/ ls[i][2] # <<"c", "n", "f">>)
       \/ \E i \in 1..Len(ls) :
             ~IsProblemLine(ls[i]) /\ \E j \in 1..Len(ls[i]) : ~IsInteger(ls[i][j])

\* C12: parse_dimacs fails, returning no formula, whenever the text has no
\* problem line, a problem line whose format token is not "cnf", or a clause
\* token that is not an integer.
C12_MalformedRejected ==
    (parsed.set /\ text.set /\ Malformed(text.chars)) => parsed.status # "ok"

\* How often the literal occurs in the clause list (every occurrence counts).
Occurrences(clauses, l) ==
    Cardinality({p \in UNION {{<<i, j>> : j \in 1..Len(clauses[i])} : i \in 1..Len(clauses)} :
                    clauses[p[1]][p[2]] = l})

\* The larger of the two occurrence counts of a variable.
Score(clauses, v) == Max2(Occurrences(clauses, v), Occurrences(clauses, 0 - v))

\* The unassigned variables that occur in the clauses.
Occurring(clauses, a) ==
    {v \in 1..MaxMag(clauses) : v \notin DOMAIN a /\ Score(clauses, v) > 0}

\* C13: _dlis_lite_choice returns an unassigned occurring variable whose
\* larger occurrence count is maximal among the unassigned occurring
\* variables, with polarity true iff its positive count is at least its
\* negative count; it returns 0 only when no unassigned variable occurs; the
\* two clause lists of the tests give (1, True) and (2, False).
C13_DlisChoice ==
    probe.op = "dlis" =>
        LET cs == probe.clauses
            cand == Occurring(cs, probe.assign)
        IN /\ (probe.v = 0) <=> (cand = {})
           /\ probe.v # 0 =>
                 /\ probe.v \in cand
                 /\ \A w \in cand : Score(cs, w) <= Score(cs, probe.v)
                 /\ probe.pol = (Occurrences(cs, probe.v) >= Occurrences(cs, 0 - probe.v))
           /\ (cs = << <<1, 1, -2>>, <<1>>, <<3, -2>> >> /\ probe.assign = EmptyAssign)
                 => (probe.v = 1 /\ probe.pol)
           /\ (cs = << <<-2, -2, 1>>, <<-2>>, <<3, 1>> >> /\ probe.assign = EmptyAssign)
                 => (probe.v = 2 /\ ~probe.pol)

\* The heuristic chose variable 2 with polarity false on the second test list.
C13_Witness ==
    /\ probe.op = "dlis"
    /\ probe.clauses = << <<-2, -2, 1>>, <<-2>>, <<3, 1>> >>
    /\ probe.assign = EmptyAssign
    /\ probe.v = 2 /\ ~probe.pol

\* The schedule gives each course exactly one (room, time), puts at most one
\* course in each (room, time), never has two courses of one teacher at the
\* same time, and has each course only at a time its teacher allows.
ValidSchedule(inst, S) ==
    /\ \A c \in 1..inst.nC : Cardinality({i \in 1..Len(S) : S[i][1] = c}) = 1
    /\ \A r \in 1..inst.nR, t \in 1..inst.nT :
          Cardinality({S[i][1] : i \in {j \in 1..Len(S) : S[j][2] = r /\ S[j][3] = t}}) <= 1
    /\ \A i, j \in 1..Len(S) :
          (S[i][1] # S[j][1] /\ inst.teacher_of[S[i][1]] = inst.teacher_of[S[j][1]])
              => S[i][3] # S[j][3]
    /\ \A i \in 1..Len(S) :
          \/ inst.teacher_of[S[i][1]] \notin DOMAIN inst.teacher_available
          \/ S[i][3] \in inst.teacher_available[inst.teacher_of[S[i][1]]]

\* C14: var_index is a bijection from the (course, room, time) triples onto
\* 1..|courses|*|rooms|*|times|, and a total assignment satisfies
\* encode(inst) iff the schedule decode gives for it is valid.
C14_EncodingMeansValidSchedule ==
    /\ probe.op = "encode" =>
          LET inst == probe.inst
              triples == (1..inst.nC) \X (1..inst.nR) \X (1..inst.nT)
          IN /\ \A x \in triples : VarIndex(inst, x[1], x[2], x[3]) \in 1..probe.cnf.num_vars
             /\ \A x, y \in triples :
                   VarIndex(inst, x[1], x[2], x[3]) = VarIndex(inst, y[1], y[2], y[3]) => x = y
             /\ probe.cnf.num_vars = Cardinality(triples)
    /\ probe.op = "decode" => (probe.satisfied <=> ValidSchedule(probe.inst, probe.schedule))

\* Two courses of one teacher who allows both times, two rooms: a model that
\* puts them in the same room at different times satisfies the encoding.
C14_Witness ==
    /\ probe.op = "decode"
    /\ probe.inst.nC = 2 /\ probe.inst.nR = 2 /\ probe.inst.nT = 2
    /\ probe.inst.teacher_of[1] = probe.inst.teacher_of[2]
    /\ probe.satisfied
    /\ probe.schedule = << <<1, 1, 1>>, <<2, 1, 2>> >>

\* C15: when a branch fails, the backtrack leaves the shared assignment
\* dict exactly as it was immediately before the decision of that branch,
\* both when the other polarity is tried next and when failure is returned
\* to the parent.
C15_BacktrackRestoresAssign ==
    [][AtPc("failed") => assign' = Top.base]_vars

\* C16: whenever _unit_propagate returns without conflict during a dpll run,
\* none of the clauses it returns has length exactly 1.
C16_NoUnitLeft ==
    AtPc("pure") => \A i \in 1..Len(Top.clauses) : Len(Top.clauses[i].lits) # 1

\* The unassigned variables that occur with a single polarity.
PureVars(clauses, a) ==
    {v \in 1..MaxMag(clauses) :
        /\ v \notin DOMAIN a
        /\ (Occurrences(clauses, v) > 0) # (Occurrences(clauses, 0 - v) > 0)}

\* C17: one call of _pure_literal_elimination assigns every unassigned
\* variable that occurs with a single polarity to that polarity (and nothing
\* else), adds one to the propagation counter per such variable, returns the
\* given clauses that contain none of those pure literals, in order and
\* unmodified, and reports changed iff a variable was assigned; on
\* [[1,-3],[2,-3]] it leaves no clause and has variable 3 false.
C17_PureLiteralElimination ==
    probe.op = "pure" =>
        LET cs == probe.clauses
            a == probe.assign
            pv == PureVars(cs, a)
            plits == {IF Occurrences(cs, v) > 0 THEN v ELSE 0 - v : v \in pv}
            Kept(cl) == \A i \in 1..Len(cl) : cl[i] \notin plits
        IN /\ DOMAIN probe.out_assign = (DOMAIN a) \cup pv
           /\ \A v \in DOMAIN a : probe.out_assign[v] = a[v]
           /\ \A v \in pv : probe.out_assign[v] = (Occurrences(cs, v) > 0)
           /\ probe.out_stats =
                 [probe.stats EXCEPT !.propagations = @ + Cardinality(pv)]
           /\ probe.out_clauses = SelectSeq(cs, Kept)
           /\ probe.changed <=> (pv # {})
           /\ (cs = << <<1, -3>>, <<2, -3>> >> /\ a = EmptyAssign)
                 => (probe.out_clauses = <<>> /\ ~probe.out_assign[3])

\* The call on the list of test_pure_literals.py: all three variables are
\* pure, variable 3 is assigned false and no clause is left.
C17_Witness ==
    /\ probe.op = "pure"
    /\ probe.clauses = << <<1, -3>>, <<2, -3>> >>
    /\ probe.assign = EmptyAssign
    /\ probe.out_assign = <<TRUE, TRUE, FALSE>>
    /\ probe.out_clauses = <<>>
    /\ probe.changed
    /\ probe.out_stats.propagations = probe.stats.propagations + 3

\* C18: the statistics are scoped to one call: when a dpll call has returned,
\* the counters of its Stats object count the decisions, propagations and
\* backtracks of that call alone, also when the same Stats object was passed
\* to the call before; within a call no counter decreases.
C18_StatsScopedToCall ==
    /\ [](Finished => stats = tally)
    /\ [][phase = "running" =>
            /\ stats'.decisions >= stats.decisions
            /\ stats'.propagations >= stats.propagations
            /\ stats'.backtracks >= stats.backtracks]_vars

\* C19: the verdict of dpll does not depend on the heuristic: a call with
\* use_heuristic=True and a call with use_heuristic=False on the same formula
\* return the same satisfiable/unsatisfiable answer.
C19_VerdictIgnoresHeuristic ==
    (Finished /\ prev.set /\ prev.heuristic # use_heuristic)
        => result.sat = prev.result.sat

\* The number of events of the kind in the trace.
CountEvents(kind) ==
    Cardinality({i \in 1..Len(trace.events) : trace.events[i].kind = kind})

\* C20: after a dpll call with a fresh, empty Trace and a fresh Stats the
\* trace has as many decide events as stats.decisions, as many backtrack
\* events as stats.backtracks, and as many unit and pure events together as
\* stats.propagations.
C20_TraceAgreesWithStats ==
    (Finished /\ tmode = "fresh") =>
        /\ CountEvents("decide") = stats.decisions
        /\ CountEvents("backtrack") = stats.backtracks
        /\ CountEvents("unit") + CountEvents("pure") = stats.propagations

\* C21: with a fresh Stats, backtracks <= decisions in every state of a dpll
\* run; when dpll returns unsatisfiable the two are equal; when an activation
\* finds the formula satisfied, decisions - backtracks is the number of
\* activations waiting on their decision (the decided variables of the
\* successful path), each of these variables is a key of the returned
\* assignment, and counters and assignment reach the caller unchanged.
C21_BacktracksAndDecisions ==
    /\ [](stats.backtracks <= stats.decisions)
    /\ []((Finished /\ ~result.sat) => stats.backtracks = stats.decisions)
    /\ [][(phase = "running" /\ ~ret.set /\ ret'.set /\ ret'.sat) =>
            /\ stats'.decisions - stats'.backtracks = Len(stack')
            /\ \A i \in 1..Len(stack') :
                  stack'[i].pc = "wait" /\ stack'[i].v \in DOMAIN ret'.model]_vars
    /\ [][(phase = "running" /\ ret.set /\ ret.sat) =>
            (stats' = stats /\ (ret' = ret \/ result' = ret))]_vars

\* A satisfiable answer after a failed branch: one decision was undone, the
\* decision of the successful path was not.
C21_Witness ==
    /\ Finished /\ result.sat
    /\ stats.backtracks >= 1
    /\ stats.decisions > stats.backtracks

\* C22: formula_satisfied is monotone in the assignment: when the formula is
\* satisfied by an assignment, it is satisfied by every assignment that
\* keeps its keys and values and only adds variables, and by the completion
\* the model line prints (unassigned variables false).
C22_SatisfiedIsMonotone ==
    (checked.set /\ checked.value /\ probe.op \in {"extension", "printed"})
        => (probe.value /\ (probe.op = "extension" => Extends(probe.model, checked.model)))

\* A partial assignment that satisfies a formula with a clause was extended
\* by a variable and still satisfies it.
C22_Witness ==
    /\ checked.set /\ checked.value
    /\ cnf.clauses # <<>>
    /\ probe.op = "extension"
    /\ DOMAIN probe.model # DOMAIN checked.model
    /\ probe.value

====
